---- MODULE Spec2Model ----
(***************************************************************************)
(* Battery cell simulation dashboard (battery_simulation_app.py).          *)
(*                                                                         *)
(* The program is a Streamlit script: every user event (a page selection,  *)
(* a form submission, a button click, a checkbox toggle) and every         *)
(* st.rerun() of the auto-refresh loop runs the whole script once against  *)
(* the session state.  One action below is one such script run.            *)
(*                                                                         *)
(* Units: voltages are integers in millivolts, currents in milliamperes,   *)
(* capacities (voltage * current) in microwatts, temperatures in           *)
(* hundredths of a degree Celsius.  A value the code rounds to 2 decimals  *)
(* of a volt is a multiple of 10 mV, a temperature rounded to 1 decimal is *)
(* a multiple of 10 hundredths, a capacity rounded to 2 decimals is a      *)
(* multiple of 10000 microwatts.                                           *)
(***************************************************************************)
EXTENDS Integers, FiniteSets, Sequences, TLC

VARIABLES
    cells_data,          \* st.session_state.cells_data: cell_id -> cell record
    tasks_data,          \* st.session_state.tasks_data: task_id -> task record
    simulation_running,  \* st.session_state.simulation_running
    page,                \* value of the sidebar "Select Page" selectbox
    auto_refresh,        \* value of the "Auto Refresh (2s)" checkbox
    event,               \* the widget event that started the last script run
    msg,                 \* st.success / st.error shown by the last script run
    perturbed            \* cell_id -> times the last script run perturbed it

vars == <<cells_data, tasks_data, simulation_running, page, auto_refresh,
          event, msg, perturbed>>

---------------------------------------------------------------------------
(* Bounds of the model *)

MaxCells == 2
MaxTasks == 1

(* Inputs of the model *)

\* text typed into "Cell Name (optional)"; "" is the field left empty
CellNames == {"", "X"}
\* text typed into "Task Name"; "" is the field left empty
TaskNames == {"", "T1"}
\* text typed into "CC/CP Value"; "" is the field left empty
CcInputs == {"", "5A"}
\* random.uniform(25, 40), in hundredths of a degree
TempDraws == {2500, 2504, 3996, 4000}
\* random.uniform(-0.1, 0.1), in millivolts
VoltageChanges == {-100, -96, 4, 46, 100}
\* random.uniform(-2, 2), in hundredths of a degree
TempChanges == {-200, -196, 4, 200}
\* The same three draws in the specification of the whole application, where
\* the registries are explored in breadth: one initial temperature, and
\* perturbations below the resolution the code rounds to, so that there a
\* perturbation shows in perturbed and not in the stored values.
AppTempDraws == {2504}
AppVoltageChanges == {4}
AppTempChanges == {-4}
\* Cell names of the specification of long runs: named cells only.
SoakNames == {"X"}

---------------------------------------------------------------------------
(* Values of the program *)

Pages == {"Home", "Setup Cells", "Add Tasks", "Real-time Analysis", "Data Export"}
CellTypes == {"LFP", "NMC"}
TaskTypes == {"CC_CV", "IDLE", "CC_CD"}

Empty == <<>>

Len0(d) == Cardinality(DOMAIN d)

Max2(a, b) == IF a >= b THEN a ELSE b
Min2(a, b) == IF a <= b THEN a ELSE b

\* Python round(x, n) for x >= 0: the nearest multiple of q, a tie going to
\* the even multiple.
Round(x, q) ==
    LET lo == (x \div q) * q
        r  == x - lo
    IN  IF 2 * r < q THEN lo
        ELSE IF 2 * r > q THEN lo + q
        ELSE IF (lo \div q) % 2 = 0 THEN lo ELSE lo + q

Lower(cell_type) == IF cell_type = "LFP" THEN "lfp" ELSE "nmc"

---------------------------------------------------------------------------
(* Helper functions of the script *)

\* generate_cell_data with the voltage range of NMC given to both chemistries.
generate_cell_data_one_range(cell_type, cell_id, draw) ==
    LET voltage == IF cell_type = "LFP" THEN 3200 ELSE 3600
    IN  [cell_id     |-> cell_id,
         cell_type   |-> cell_type,
         voltage     |-> voltage,
         current     |-> 0,
         temperature |-> Round(draw, 10),
         capacity    |-> Round(voltage * 0, 10000),
         min_voltage |-> 3200,
         max_voltage |-> 4000,
         status      |-> "Active",
         created_at  |-> "now"]

\* generate_cell_data with the current initialised to 1 A.
generate_cell_data_current_1(cell_type, cell_id, draw) ==
    LET voltage == IF cell_type = "LFP" THEN 3200 ELSE 3600
    IN  [cell_id     |-> cell_id,
         cell_type   |-> cell_type,
         voltage     |-> voltage,
         current     |-> 1000,
         temperature |-> Round(draw, 10),
         capacity    |-> Round(voltage * 1000, 10000),
         min_voltage |-> IF cell_type = "LFP" THEN 2800 ELSE 3200,
         max_voltage |-> IF cell_type = "LFP" THEN 3600 ELSE 4000,
         status      |-> "Active",
         created_at  |-> "now"]

\* generate_cell_data(cell_type, cell_id); draw is the value of
\* random.uniform(25, 40).  created_at is the abstract instant "now".
generate_cell_data(cell_type, cell_id, draw) ==
    LET voltage     == IF cell_type = "LFP" THEN 3200 ELSE 3600
        min_voltage == IF cell_type = "LFP" THEN 2800 ELSE 3200
        max_voltage == IF cell_type = "LFP" THEN 3600 ELSE 4000
        current     == 0
        temp        == Round(draw, 10)
        capacity    == Round(voltage * current, 10000)
    IN  [cell_id     |-> cell_id,
         cell_type   |-> cell_type,
         voltage     |-> voltage,
         current     |-> current,
         temperature |-> temp,
         capacity    |-> capacity,
         min_voltage |-> min_voltage,
         max_voltage |-> max_voltage,
         status      |-> "Active",
         created_at  |-> "now"]

\* simulate_cell with the voltage clamped before the change is added.
simulate_cell_voltage_clamped_early(cell_data, voltage_change, temp_change) ==
    LET new_voltage == Max2(cell_data.min_voltage,
                            Min2(cell_data.max_voltage, cell_data.voltage))
                       + voltage_change
        new_temp    == Max2(2000, Min2(6000, cell_data.temperature + temp_change))
    IN  [cell_data EXCEPT
            !.voltage     = Round(new_voltage, 10),
            !.temperature = Round(new_temp, 10),
            !.capacity    = Round(new_voltage * cell_data.current, 10000)]

\* simulate_cell with the temperature clamped before the change is added.
simulate_cell_temp_clamped_early(cell_data, voltage_change, temp_change) ==
    LET new_voltage == Max2(cell_data.min_voltage,
                            Min2(cell_data.max_voltage,
                                 cell_data.voltage + voltage_change))
        new_temp    == Max2(2000, Min2(6000, cell_data.temperature)) + temp_change
    IN  [cell_data EXCEPT
            !.voltage     = Round(new_voltage, 10),
            !.temperature = Round(new_temp, 10),
            !.capacity    = Round(new_voltage * cell_data.current, 10000)]

\* simulate_cell with the capacity taken from the voltage alone.
simulate_cell_capacity_is_voltage(cell_data, voltage_change, temp_change) ==
    LET new_voltage == Max2(cell_data.min_voltage,
                            Min2(cell_data.max_voltage,
                                 cell_data.voltage + voltage_change))
        new_temp    == Max2(2000, Min2(6000, cell_data.temperature + temp_change))
    IN  [cell_data EXCEPT
            !.voltage     = Round(new_voltage, 10),
            !.temperature = Round(new_temp, 10),
            !.capacity    = Round(new_voltage * 1000, 10000)]

\* A perturbation that applies each drawn change twice.
simulate_cell_double_step(cell_data, voltage_change, temp_change) ==
    LET new_voltage == Max2(cell_data.min_voltage,
                            Min2(cell_data.max_voltage,
                                 cell_data.voltage + 2 * voltage_change))
        new_temp    == Max2(2000, Min2(6000, cell_data.temperature + 2 * temp_change))
    IN  [cell_data EXCEPT
            !.voltage     = Round(new_voltage, 10),
            !.temperature = Round(new_temp, 10),
            !.capacity    = Round(new_voltage * cell_data.current, 10000)]

\* simulate_cell with the new voltage written to min_voltage as well.
simulate_cell_writes_min_voltage(cell_data, voltage_change, temp_change) ==
    LET new_voltage == Max2(cell_data.min_voltage,
                            Min2(cell_data.max_voltage,
                                 cell_data.voltage + voltage_change))
        new_temp    == Max2(2000, Min2(6000, cell_data.temperature + temp_change))
    IN  [cell_data EXCEPT
            !.voltage     = Round(new_voltage, 10),
            !.min_voltage = Round(new_voltage, 10),
            !.temperature = Round(new_temp, 10),
            !.capacity    = Round(new_voltage * cell_data.current, 10000)]

\* The body of the loop of simulate_real_time_data for one cell:
\* voltage_change and temp_change are the two random.uniform draws.
simulate_cell(cell_data, voltage_change, temp_change) ==
    LET new_voltage == Max2(cell_data.min_voltage,
                            Min2(cell_data.max_voltage,
                                 cell_data.voltage + voltage_change))
        new_temp    == Max2(2000, Min2(6000, cell_data.temperature + temp_change))
    IN  [cell_data EXCEPT
            !.voltage     = Round(new_voltage, 10),
            !.temperature = Round(new_temp, 10),
            !.capacity    = Round(new_voltage * cell_data.current, 10000)]

\* simulate_real_time_data(): every cell of the registry is perturbed once;
\* draws maps each cell_id to its pair <<voltage_change, temp_change>>.
\* With an empty registry the function does nothing.
simulate_real_time_data(cells, draws) ==
    IF DOMAIN cells # {}
    THEN [cell_id \in DOMAIN cells |->
             simulate_cell(cells[cell_id], draws[cell_id][1], draws[cell_id][2])]
    ELSE cells

\* A loop body that computes from the registry's first cell, not from the
\* cell it writes.
simulate_step_reads_first(cells, cell_id, draws) ==
    LET first == CHOOSE x \in DOMAIN cells : TRUE
        moved == simulate_cell(cells[first], draws[cell_id][1], draws[cell_id][2])
    IN  [cells EXCEPT ![cell_id].voltage     = moved.voltage,
                      ![cell_id].temperature = moved.temperature,
                      ![cell_id].capacity    = moved.capacity]

\* One iteration of the loop of simulate_real_time_data: it reads cell_data
\* of cell_id and writes the three live fields of the same cell in
\* st.session_state.cells_data.
simulate_step(cells, cell_id, draws) ==
    LET moved == simulate_cell(cells[cell_id], draws[cell_id][1], draws[cell_id][2])
    IN  [cells EXCEPT ![cell_id].voltage     = moved.voltage,
                      ![cell_id].temperature = moved.temperature,
                      ![cell_id].capacity    = moved.capacity]

\* The loop of simulate_real_time_data run over the cells in the given order.
RECURSIVE SimulateInOrder(_, _, _)
SimulateInOrder(cells, order, draws) ==
    IF order = <<>> THEN cells
    ELSE SimulateInOrder(simulate_step(cells, Head(order), draws), Tail(order), draws)

\* The orders in which a loop can visit the keys.
Orders(keys) ==
    {order \in [1..Cardinality(keys) -> keys] :
        \A i, j \in 1..Cardinality(keys) : i # j => order[i] # order[j]}

\* Pairs of draws of one tick that move the stored values.
OrderDraws(cells) == [DOMAIN cells -> {<<-100, -200>>, <<46, 4>>}]

\* The draws one call of simulate_real_time_data can make.
Draws(cells, VC, TC) == [DOMAIN cells -> VC \X TC]

\* A removal that empties the registry.
Del_clears(d, k) == Empty

\* del d[k]
Del(d, k) == [x \in DOMAIN d \ {k} |-> d[x]]

\* d[k] = v
Put(d, k, v) == [x \in DOMAIN d \cup {k} |-> IF x = k THEN v ELSE d[x]]

\* f"cell_{len(st.session_state.cells_data) + 1}_{cell_type.lower()}"
AutoCellId(cells, cell_type) ==
    "cell_" \o ToString(Len0(cells) + 1) \o "_" \o Lower(cell_type)

\* f"task_{len(st.session_state.tasks_data) + 1}"
AutoTaskId(tasks) == "task_" \o ToString(Len0(tasks) + 1)

\* cell_id = cell_name if cell_name else <auto key>
CellId(cells, cell_type, cell_name) ==
    IF cell_name # "" THEN cell_name ELSE AutoCellId(cells, cell_type)

\* task_id = task_name if task_name else <auto key>
TaskId(tasks, task_name) ==
    IF task_name # "" THEN task_name ELSE AutoTaskId(tasks)

\* The membership test left out: every key is taken to be free.
KeyIsFreeAlways(key, registry) == TRUE

\* if cell_id not in st.session_state.cells_data (and the same test of
\* task_id): the key is not yet in the registry.
KeyIsFree(key, registry) == key \notin DOMAIN registry

\* The local variables the add_task_form leaves bound for each task type;
\* number_input widgets hold their default values.  "None" is Python's None,
\* "unbound" a name the branch never assigns.
FormLocals(task_type, cc_text) ==
    IF task_type = "CC_CV"
    THEN [cc_input |-> cc_text, cv_voltage |-> 4000, current |-> 1000,
          capacity |-> 100, voltage |-> "unbound", time_seconds |-> 3600]
    ELSE IF task_type = "IDLE"
    THEN [cc_input |-> "None", cv_voltage |-> "None", current |-> "None",
          capacity |-> "None", voltage |-> "unbound", time_seconds |-> 1800]
    ELSE [cc_input |-> cc_text, cv_voltage |-> "None", current |-> "None",
          capacity |-> 100, voltage |-> 3000, time_seconds |-> 3600]

\* TaskData that stores every local of the form, whatever the task type.
TaskData_all_locals(task_id, task_type, form) ==
    [task_id      |-> task_id,
     task_type    |-> task_type,
     time_seconds |-> form.time_seconds,
     status       |-> "Pending",
     created_at   |-> "now",
     cc_cp        |-> form.cc_input,
     cv_voltage   |-> form.cv_voltage,
     current      |-> form.current,
     capacity     |-> form.capacity]

\* The task_data dictionary the submit handler builds.
TaskData(task_id, task_type, form) ==
    LET base == [task_id      |-> task_id,
                 task_type    |-> task_type,
                 time_seconds |-> form.time_seconds,
                 status       |-> "Pending",
                 created_at   |-> "now"]
    IN  IF task_type = "CC_CV"
        THEN base @@ [cc_cp      |-> form.cc_input,
                      cv_voltage |-> form.cv_voltage,
                      current    |-> form.current,
                      capacity   |-> form.capacity]
        ELSE IF task_type = "CC_CD"
        THEN base @@ [cc_cp    |-> form.cc_input,
                      voltage  |-> form.voltage,
                      capacity |-> form.capacity]
        ELSE base

\* st.rerun() taken to return to its caller.
RerunReturns == FALSE

\* st.rerun() in the auto-refresh block ends the script run at once.
RerunEndsScript == TRUE

\* A start button that toggles the flag.
OnStartToggle(running) == ~running

\* st.session_state.simulation_running = True (line 395)
OnStart(running) == TRUE

\* st.session_state.simulation_running = False (line 399)
OnStop(running) == FALSE

\* The guard of the auto-refresh block of the Real-time Analysis page.
\* An auto-refresh block that does not test simulation_running.
AutoRefreshFiresStopped(pg, cells, auto, running) ==
    /\ pg = "Real-time Analysis"
    /\ DOMAIN cells # {}
    /\ auto

AutoRefreshFires(pg, cells, auto, running) ==
    /\ pg = "Real-time Analysis"
    /\ DOMAIN cells # {}
    /\ auto
    /\ running

\* A Real-time Analysis page that draws its buttons with no cell stored.
PageStopsAddTasksOnly(pg, cells) ==
    /\ pg = "Add Tasks"
    /\ DOMAIN cells = {}

\* Pages that draw their widgets whatever the registry holds.
PageStopsNever(pg, cells) == FALSE

\* The pages whose script run ends in st.stop() before any widget of the
\* page is drawn.
PageStops(pg, cells) ==
    /\ pg \in {"Add Tasks", "Real-time Analysis"}
    /\ DOMAIN cells = {}

\* Perturbation counts of one script run.
Count(cells, n) == [cell_id \in DOMAIN cells |-> n]

---------------------------------------------------------------------------
(* The inputs of the two specifications: the whole application (Spec), and *)
(* long runs of the perturbation engine on named cells (SoakSpec).          *)

App  == [names |-> CellNames, temps |-> AppTempDraws,
         vc |-> AppVoltageChanges, tc |-> AppTempChanges]
Soak == [names |-> SoakNames, temps |-> TempDraws,
         vc |-> VoltageChanges, tc |-> TempChanges]

---------------------------------------------------------------------------
(* Initial state: lines 79-86, and the widgets' default values *)

Init ==
    /\ cells_data = Empty
    /\ tasks_data = Empty
    /\ simulation_running = FALSE
    /\ page = "Home"
    /\ auto_refresh = TRUE
    /\ event = "init"
    /\ msg = ""
    /\ perturbed = Empty

---------------------------------------------------------------------------
(* Script runs *)

\* A script run that calls simulate_real_time_data nowhere.
NoTick(cells) ==
    /\ cells_data' = cells
    /\ perturbed' = Count(cells, 0)

\* The part of a script run from the auto-refresh block (lines 404-408) to
\* the sidebar "Refresh Data" button (lines 631-635): fires is the guard of
\* the auto-refresh block, refresh whether the sidebar button was clicked.
RunTail(fires, refresh, m) ==
    IF fires \/ (refresh /\ DOMAIN cells_data # {})
    THEN \E draws \in Draws(cells_data, m.vc, m.tc) :
            LET c1    == IF fires
                         THEN simulate_real_time_data(cells_data, draws)
                         ELSE cells_data
                ended == fires /\ RerunEndsScript
                side  == refresh /\ ~ended /\ DOMAIN c1 # {}
                c2    == IF side
                         THEN simulate_real_time_data(c1, draws)
                         ELSE c1
                n     == (IF fires THEN 1 ELSE 0) + (IF side THEN 1 ELSE 0)
            IN  /\ cells_data' = c2
                /\ perturbed' = Count(c2, n)
    ELSE NoTick(cells_data)

\* The user picks another page in the sidebar selectbox (lines 90-94).
SelectPage(p, m) ==
    /\ event' = "select_page"
    /\ p # page
    /\ page' = p
    /\ auto_refresh' = TRUE
    /\ msg' = ""
    /\ RunTail(AutoRefreshFires(p, cells_data, TRUE, simulation_running), FALSE, m)
    /\ UNCHANGED <<tasks_data, simulation_running>>

\* "Add Cell" submitted on the Setup Cells page (lines 208-223).
AddCell(cell_type, cell_name, draw, m) ==
    /\ event' = "add_cell"
    /\ page = "Setup Cells"
    /\ LET cell_id == CellId(cells_data, cell_type, cell_name)
       IN  IF KeyIsFree(cell_id, cells_data)
           THEN /\ Len0(cells_data) < MaxCells
                /\ NoTick(Put(cells_data, cell_id,
                              generate_cell_data(cell_type, cell_id, draw)))
                /\ msg' = "cell_added"
           ELSE /\ NoTick(cells_data)
                /\ msg' = "cell_exists"
    /\ UNCHANGED <<tasks_data, simulation_running, page, auto_refresh>>

\* "Remove <cell_id>" clicked on the Setup Cells page (lines 246-249).
RemoveCell(cell_id) ==
    /\ event' = "remove_cell"
    /\ page = "Setup Cells"
    /\ cell_id \in DOMAIN cells_data
    /\ NoTick(Del(cells_data, cell_id))
    /\ msg' = "cell_removed"
    /\ UNCHANGED <<tasks_data, simulation_running, page, auto_refresh>>

\* "Add Task" submitted on the Add Tasks page (lines 263-334).
AddTask(task_type, task_name, cc_text) ==
    /\ event' = "add_task"
    /\ page = "Add Tasks"
    /\ ~PageStops(page, cells_data)
    /\ LET task_id == TaskId(tasks_data, task_name)
           form    == FormLocals(task_type, cc_text)
       IN  IF KeyIsFree(task_id, tasks_data)
           THEN /\ Len0(tasks_data) < MaxTasks
                /\ tasks_data' = Put(tasks_data, task_id,
                                     TaskData(task_id, task_type, form))
                /\ msg' = "task_added"
           ELSE /\ tasks_data' = tasks_data
                /\ msg' = "task_exists"
    /\ NoTick(cells_data)
    /\ UNCHANGED <<simulation_running, page, auto_refresh>>

\* "Remove <task_id>" clicked on the Add Tasks page (lines 359-362).
RemoveTask(task_id) ==
    /\ event' = "remove_task"
    /\ page = "Add Tasks"
    /\ ~PageStops(page, cells_data)
    /\ task_id \in DOMAIN tasks_data
    /\ tasks_data' = Del(tasks_data, task_id)
    /\ msg' = "task_removed"
    /\ NoTick(cells_data)
    /\ UNCHANGED <<simulation_running, page, auto_refresh>>

\* A start handler that also marks every stored task as running.
StartSimulation_runs_tasks(m) ==
    /\ event' = "start"
    /\ page = "Real-time Analysis"
    /\ ~PageStops(page, cells_data)
    /\ simulation_running' = TRUE
    /\ tasks_data' = [k \in DOMAIN tasks_data |->
                        [tasks_data[k] EXCEPT !.status = "Running"]]
    /\ msg' = ""
    /\ RunTail(AutoRefreshFires(page, cells_data, auto_refresh, TRUE), FALSE, m)
    /\ UNCHANGED <<page, auto_refresh>>

\* "Start Simulation" clicked on the Real-time Analysis page (lines 394-395).
StartSimulation(m) ==
    /\ event' = "start"
    /\ page = "Real-time Analysis"
    /\ ~PageStops(page, cells_data)
    /\ simulation_running' = OnStart(simulation_running)
    /\ msg' = ""
    /\ RunTail(AutoRefreshFires(page, cells_data, auto_refresh, simulation_running'),
               FALSE, m)
    /\ UNCHANGED <<tasks_data, page, auto_refresh>>

\* "Stop Simulation" clicked on the Real-time Analysis page (lines 398-399).
StopSimulation(m) ==
    /\ event' = "stop"
    /\ page = "Real-time Analysis"
    /\ ~PageStops(page, cells_data)
    /\ simulation_running' = OnStop(simulation_running)
    /\ msg' = ""
    /\ RunTail(AutoRefreshFires(page, cells_data, auto_refresh, simulation_running'),
               FALSE, m)
    /\ UNCHANGED <<tasks_data, page, auto_refresh>>

\* The "Auto Refresh (2s)" checkbox toggled (line 402).
ToggleAutoRefresh(m) ==
    /\ event' = "auto_refresh"
    /\ page = "Real-time Analysis"
    /\ ~PageStops(page, cells_data)
    /\ auto_refresh' = ~auto_refresh
    /\ msg' = ""
    /\ RunTail(AutoRefreshFires(page, cells_data, ~auto_refresh, simulation_running),
               FALSE, m)
    /\ UNCHANGED <<tasks_data, simulation_running, page>>

\* The script run that the st.rerun() of the auto-refresh block starts
\* (lines 405-408): no widget has changed.
AutoRefreshRun(m) ==
    /\ event' = "rerun"
    /\ AutoRefreshFires(page, cells_data, auto_refresh, simulation_running)
    /\ msg' = ""
    /\ RunTail(TRUE, FALSE, m)
    /\ UNCHANGED <<tasks_data, simulation_running, page, auto_refresh>>

\* The sidebar "Refresh Data" button clicked (lines 631-635).
RefreshData(m) ==
    /\ event' = "refresh"
    /\ ~PageStops(page, cells_data)
    /\ msg' = ""
    /\ RunTail(AutoRefreshFires(page, cells_data, auto_refresh, simulation_running),
               TRUE, m)
    /\ UNCHANGED <<tasks_data, simulation_running, page, auto_refresh>>

---------------------------------------------------------------------------
(* Specifications *)

Next ==
    \/ \E p \in Pages : SelectPage(p, App)
    \/ \E cell_type \in CellTypes, cell_name \in App.names, draw \in App.temps :
          AddCell(cell_type, cell_name, draw, App)
    \/ \E cell_id \in DOMAIN cells_data : RemoveCell(cell_id)
    \/ \E task_type \in TaskTypes, task_name \in TaskNames, cc_text \in CcInputs :
          AddTask(task_type, task_name, cc_text)
    \/ \E task_id \in DOMAIN tasks_data : RemoveTask(task_id)
    \/ StartSimulation(App)
    \/ StopSimulation(App)
    \/ ToggleAutoRefresh(App)
    \/ AutoRefreshRun(App)
    \/ RefreshData(App)

Spec == Init /\ [][Next]_vars

\* Long runs of the perturbation engine on explicitly named cells.
SoakNext ==
    \/ \E p \in Pages : SelectPage(p, Soak)
    \/ \E cell_type \in CellTypes, cell_name \in Soak.names, draw \in Soak.temps :
          AddCell(cell_type, cell_name, draw, Soak)
    \/ \E cell_id \in DOMAIN cells_data : RemoveCell(cell_id)
    \/ StartSimulation(Soak)
    \/ StopSimulation(Soak)
    \/ ToggleAutoRefresh(Soak)
    \/ AutoRefreshRun(Soak)
    \/ RefreshData(Soak)

SoakSpec == Init /\ [][SoakNext]_vars

\* The registries of cells the application can build, each with a manual
\* refresh run over it: cells of both chemistries, named and unnamed, created
\* at either end of the temperature range.
Registry == [names |-> CellNames, temps |-> TempDraws,
             vc |-> AppVoltageChanges, tc |-> AppTempChanges]

RegistryNext ==
    \/ \E p \in Pages : SelectPage(p, Registry)
    \/ \E cell_type \in CellTypes, cell_name \in Registry.names, draw \in Registry.temps :
          AddCell(cell_type, cell_name, draw, Registry)
    \/ \E cell_id \in DOMAIN cells_data : RemoveCell(cell_id)
    \/ RefreshData(Registry)

RegistrySpec == Init /\ [][RegistryNext]_vars

---------------------------------------------------------------------------
(* Aggregates: the Home quick stats and the combined report of Data Export *)

RECURSIVE SumField(_, _, _)
SumField(cells, keys, field) ==
    IF keys = {} THEN 0
    ELSE LET k == CHOOSE x \in keys : TRUE
         IN  cells[k][field] + SumField(cells, keys \ {k}, field)

\* pd.DataFrame(cells).T[field].mean(): the sum of the column and the number
\* of its rows, the mean being their quotient; the frame of an empty
\* dictionary has no such column, and reading it raises KeyError.
Mean(cells, field) ==
    [KeyError |-> DOMAIN cells = {},
     sum      |-> SumField(cells, DOMAIN cells, field),
     n        |-> Len0(cells)]

\* sum(1 for cell in cells.values() if cell["cell_type"] == cell_type)
TypeCount(cells, cell_type) ==
    Cardinality({k \in DOMAIN cells : cells[k].cell_type = cell_type})

lfp_count(cells) == TypeCount(cells, "LFP")
nmc_count(cells) == TypeCount(cells, "NMC")

\* The entries report_data.update adds.
CellAggregates(cells) ==
    [key \in {"Average_Voltage", "Average_Temperature", "LFP_Cells", "NMC_Cells"} |->
        CASE key = "Average_Voltage"     -> Mean(cells, "voltage")
          [] key = "Average_Temperature" -> Mean(cells, "temperature")
          [] key = "LFP_Cells"           -> TypeCount(cells, "LFP")
          [] key = "NMC_Cells"           -> TypeCount(cells, "NMC")]

\* A report that computes the cell aggregates whatever the registry holds.
report_data_unguarded(cells, tasks) ==
    [key \in {"Total_Cells", "Total_Tasks"} |->
        IF key = "Total_Cells" THEN Len0(cells) ELSE Len0(tasks)]
    @@ CellAggregates(cells)

\* report_data of the combined export (the export date left out).
report_data(cells, tasks) ==
    [key \in {"Total_Cells", "Total_Tasks"} |->
        IF key = "Total_Cells" THEN Len0(cells) ELSE Len0(tasks)]
    @@ (IF DOMAIN cells # {} THEN CellAggregates(cells) ELSE Empty)

\* The combined export is drawn on the Data Export page when either registry
\* holds something.
ReportShown(pg, cells, tasks) ==
    /\ pg = "Data Export"
    /\ (DOMAIN cells # {} \/ DOMAIN tasks # {})

---------------------------------------------------------------------------
(* Properties *)

Cells == {cells_data[k] : k \in DOMAIN cells_data}
Tasks == {tasks_data[k] : k \in DOMAIN tasks_data}

\* C1: in every reachable state every cell's stored voltage lies within
\* [min_voltage, max_voltage], right after creation and after every
\* perturbation and its rounding to 2 decimals.
VoltageBound ==
    \A k \in DOMAIN cells_data :
        /\ cells_data[k].min_voltage <= cells_data[k].voltage
        /\ cells_data[k].voltage <= cells_data[k].max_voltage

\* A perturbed cell whose voltage sits at its upper bound, and so has been
\* raised from its nominal value by perturbations.
VoltageBoundWitness ==
    \E k \in DOMAIN cells_data :
        /\ perturbed[k] = 1
        /\ cells_data[k].voltage = cells_data[k].max_voltage

\* C2: in every reachable state every cell's stored temperature lies within
\* [20, 60] degrees.
TemperatureBound ==
    \A k \in DOMAIN cells_data :
        /\ 2000 <= cells_data[k].temperature
        /\ cells_data[k].temperature <= 6000

\* A perturbed cell whose temperature sits at the upper bound of 60 degrees.
TemperatureBoundWitness ==
    \E k \in DOMAIN cells_data :
        /\ perturbed[k] = 1
        /\ cells_data[k].temperature = 6000

\* C3: in every reachable state (after creation and after any perturbation)
\* every cell's stored capacity equals its stored voltage times its stored
\* current, rounded to 2 decimals.
CapacityConsistency ==
    \A k \in DOMAIN cells_data :
        cells_data[k].capacity =
            Round(cells_data[k].voltage * cells_data[k].current, 10000)

\* A perturbed cell whose stored voltage is off the 0.1 V grid: the
\* perturbation moved it and the rounding to 2 decimals acted.
CapacityConsistencyWitness ==
    \E k \in DOMAIN cells_data :
        /\ perturbed[k] = 1
        /\ cells_data[k].voltage % 100 # 0

\* C4: a create_cell or create_task keeps every record already in its
\* registry; if it reports "already exists" the registry is unchanged, and
\* it reports success only when the registry has grown by one key, so a
\* create whose key is already taken is reported as an error and overwrites
\* nothing.
DuplicateRejection ==
    [][ /\ event' = "add_cell" =>
              /\ msg' \in {"cell_added", "cell_exists"}
              /\ \A k \in DOMAIN cells_data :
                    k \in DOMAIN cells_data' /\ cells_data'[k] = cells_data[k]
              /\ msg' = "cell_exists" => cells_data' = cells_data
              /\ msg' = "cell_added" => Len0(cells_data') = Len0(cells_data) + 1
        /\ event' = "add_task" =>
              /\ msg' \in {"task_added", "task_exists"}
              /\ \A k \in DOMAIN tasks_data :
                    k \in DOMAIN tasks_data' /\ tasks_data'[k] = tasks_data[k]
              /\ msg' = "task_exists" => tasks_data' = tasks_data
              /\ msg' = "task_added" => Len0(tasks_data') = Len0(tasks_data) + 1
      ]_vars

\* The second creation of a cell named "X" has been rejected and the
\* registry still holds the one cell.
DuplicateRejectionWitness ==
    /\ event = "add_cell"
    /\ msg = "cell_exists"
    /\ DOMAIN cells_data = {"X"}

\* C5: the controller starts Stopped; a start leaves it Running and a stop
\* leaves it Stopped whatever its state was, and no other event changes it.
ControllerStateMachine ==
    /\ simulation_running = FALSE
    /\ [][ /\ event' = "start" => simulation_running' = TRUE
           /\ event' = "stop" => simulation_running' = FALSE
           /\ event' \notin {"start", "stop"} =>
                 simulation_running' = simulation_running
         ]_vars

\* The controller is Running right after a start.
ControllerWitness ==
    /\ event = "start"
    /\ simulation_running = TRUE

\* C6: a script run in which the auto-refresh block fires (the controller is
\* Running, the Real-time Analysis page is shown with Auto Refresh checked)
\* perturbs every registered cell exactly once, and no script run perturbs
\* a cell twice.
OneTickPerCadenceEvent ==
    \A k \in DOMAIN cells_data :
        /\ AutoRefreshFires(page, cells_data, auto_refresh, simulation_running)
              => perturbed[k] = 1
        /\ perturbed[k] <= 1

\* The sidebar Refresh Data button was clicked while the auto-refresh block
\* fires, with two cells registered: each was perturbed once.
OneTickWitness ==
    /\ event = "refresh"
    /\ AutoRefreshFires(page, cells_data, auto_refresh, simulation_running)
    /\ Len0(cells_data) = 2
    /\ \A k \in DOMAIN cells_data : perturbed[k] = 1

\* C7: a successful create_cell stores a record whose electrical values
\* depend on the chemistry alone: LFP 3.2 V in [2.8, 3.6], NMC 3.6 V in
\* [3.2, 4.0]; current 0, capacity 0, status Active, temperature in [25, 40].
CreationDefaults ==
    [][ (event' = "add_cell" /\ msg' = "cell_added") =>
          \A k \in DOMAIN cells_data' \ DOMAIN cells_data :
             LET c == cells_data'[k]
             IN  /\ c.cell_type = "LFP" =>
                       /\ c.voltage = 3200
                       /\ c.min_voltage = 2800
                       /\ c.max_voltage = 3600
                 /\ c.cell_type = "NMC" =>
                       /\ c.voltage = 3600
                       /\ c.min_voltage = 3200
                       /\ c.max_voltage = 4000
                 /\ c.cell_type \in CellTypes
                 /\ c.current = 0
                 /\ c.capacity = 0
                 /\ c.status = "Active"
                 /\ 2500 <= c.temperature /\ c.temperature <= 4000
      ]_vars

\* An LFP cell has just been created, at the upper end of the temperature
\* range.
CreationDefaultsWitness ==
    /\ event = "add_cell"
    /\ msg = "cell_added"
    /\ \E k \in DOMAIN cells_data :
          /\ cells_data[k].cell_type = "LFP"
          /\ cells_data[k].temperature = 4000
          /\ cells_data[k].max_voltage = 3600

\* C8: in every reachable state the key an unnamed create_cell or
\* create_task would generate is not in the registry.
AutoKeyIsUnique ==
    /\ \A cell_type \in CellTypes :
          AutoCellId(cells_data, cell_type) \notin DOMAIN cells_data
    /\ AutoTaskId(tasks_data) \notin DOMAIN tasks_data

CommonFields == {"task_id", "task_type", "time_seconds", "status", "created_at"}

KindFields(task_type) ==
    IF task_type = "CC_CV" THEN {"cc_cp", "cv_voltage", "current", "capacity"}
    ELSE IF task_type = "CC_CD" THEN {"cc_cp", "voltage", "capacity"}
    ELSE {}

\* C9: the fields of every stored task are the common fields and the fields
\* of its own kind, no others.
TaskFieldsByKind ==
    \A k \in DOMAIN tasks_data :
        DOMAIN tasks_data[k] = CommonFields \cup KindFields(tasks_data[k].task_type)

\* An IDLE task has just been stored.
TaskFieldsWitness ==
    /\ event = "add_task"
    /\ msg = "task_added"
    /\ \E k \in DOMAIN tasks_data : tasks_data[k].task_type = "IDLE"

\* C10: no CC_CV or CC_CD task is stored with its CC/CP setpoint missing
\* (a creation with the setpoint left empty is aborted).
RequiredFieldsValidated ==
    \A k \in DOMAIN tasks_data :
        tasks_data[k].task_type \in {"CC_CV", "CC_CD"} => tasks_data[k].cc_cp # ""

Abs(x) == IF x < 0 THEN -x ELSE x

\* The cells present before and after a step.
Kept == DOMAIN cells_data \cap DOMAIN cells_data'

\* C11: one script run changes no cell's stored voltage by more than 0.1 V
\* and no cell's stored temperature by more than 2 degrees.
SingleTickStepBound ==
    [][ \A k \in Kept :
          /\ Abs(cells_data'[k].voltage - cells_data[k].voltage) <= 100
          /\ Abs(cells_data'[k].temperature - cells_data[k].temperature) <= 200
      ]_vars

\* An LFP cell has been perturbed off the 0.1 V grid and down to the lower
\* temperature bound, where the clamp shortens the step.
SingleTickWitness ==
    \E k \in DOMAIN cells_data :
        /\ perturbed[k] = 1
        /\ cells_data[k].voltage = 3250
        /\ cells_data[k].temperature = 2000

\* C13: no script run changes a cell's key, chemistry, current, status,
\* min_voltage or max_voltage, and a run that perturbs neither adds nor
\* removes a cell; min_voltage and max_voltage keep the values of the
\* cell's chemistry.
TickFrame ==
    /\ [][ /\ \A k \in Kept :
                /\ cells_data'[k].cell_id = cells_data[k].cell_id
                /\ cells_data'[k].cell_type = cells_data[k].cell_type
                /\ cells_data'[k].current = cells_data[k].current
                /\ cells_data'[k].status = cells_data[k].status
                /\ cells_data'[k].min_voltage = cells_data[k].min_voltage
                /\ cells_data'[k].max_voltage = cells_data[k].max_voltage
           /\ (\E k \in DOMAIN perturbed' : perturbed'[k] >= 1) =>
                DOMAIN cells_data' = DOMAIN cells_data
         ]_vars
    /\ [](\A k \in DOMAIN cells_data :
            /\ cells_data[k].min_voltage =
                  (IF cells_data[k].cell_type = "LFP" THEN 2800 ELSE 3200)
            /\ cells_data[k].max_voltage =
                  (IF cells_data[k].cell_type = "LFP" THEN 3600 ELSE 4000))

\* A perturbed NMC cell whose voltage has come down to its lower bound and
\* whose temperature has moved, with the range of its chemistry intact.
TickFrameWitness ==
    \E k \in DOMAIN cells_data :
        /\ perturbed[k] = 1
        /\ cells_data[k].cell_type = "NMC"
        /\ cells_data[k].voltage = 3200
        /\ cells_data[k].temperature = 4200
        /\ cells_data[k].min_voltage = 3200
        /\ cells_data[k].max_voltage = 4000

\* C14: in every reachable state every cell has current 0 and capacity 0.
CurrentAlwaysZero ==
    \A k \in DOMAIN cells_data :
        /\ cells_data[k].current = 0
        /\ cells_data[k].capacity = 0

\* Two cells perturbed while the simulation runs, with a CC_CV task of
\* current 1 A stored: the current of the cells is still 0.
CurrentZeroWitness ==
    /\ simulation_running
    /\ event = "rerun"
    /\ Len0(cells_data) = 2
    /\ \E t \in DOMAIN tasks_data :
          tasks_data[t].task_type = "CC_CV" /\ tasks_data[t].current = 1000
    /\ \A k \in DOMAIN cells_data :
          perturbed[k] = 1 /\ cells_data[k].current = 0

\* C12: a stored task is never changed: every script run keeps each task
\* record as it is or, if the run is the removal of a task, drops it; only
\* the creation and the removal of a task change the task registry, every
\* task stays Pending, and the creation or removal of a task changes no
\* cell and perturbs none.
TasksRecordOnly ==
    /\ [][ /\ \A k \in DOMAIN tasks_data :
                IF k \in DOMAIN tasks_data'
                THEN tasks_data'[k] = tasks_data[k]
                ELSE event' = "remove_task"
           /\ event' \notin {"add_task", "remove_task"} => tasks_data' = tasks_data
           /\ event' \in {"add_task", "remove_task"} =>
                /\ cells_data' = cells_data
                /\ \A k \in DOMAIN perturbed' : perturbed'[k] = 0
         ]_vars
    /\ [](\A k \in DOMAIN tasks_data : tasks_data[k].status = "Pending")

\* The simulation was started and has perturbed the cells with a CC_CD task
\* stored: the task is still Pending.
TasksRecordOnlyWitness ==
    /\ event = "start"
    /\ simulation_running
    /\ \E k \in DOMAIN cells_data : perturbed[k] = 1
    /\ \E t \in DOMAIN tasks_data :
          tasks_data[t].task_type = "CC_CD" /\ tasks_data[t].status = "Pending"

\* C15: aggregates tolerate an empty cell registry: with no cells the report
\* holds no average voltage and no average temperature (neither a zero nor
\* an error) and the per-chemistry counts of the quick stats are zero; with
\* cells the averages are quotients by the positive number of cells, and the
\* LFP count plus the NMC count is the size of the registry, in the quick
\* stats and in the report.
EmptyRegistryAggregates ==
    LET report == report_data(cells_data, tasks_data)
    IN  /\ Len0(cells_data) = lfp_count(cells_data) + nmc_count(cells_data)
        /\ DOMAIN cells_data = {} =>
              /\ lfp_count(cells_data) = 0
              /\ nmc_count(cells_data) = 0
        /\ ReportShown(page, cells_data, tasks_data) =>
              /\ report["Total_Cells"] = Len0(cells_data)
              /\ IF DOMAIN cells_data = {}
                 THEN DOMAIN report \cap {"Average_Voltage", "Average_Temperature"} = {}
                 ELSE /\ \A key \in {"Average_Voltage", "Average_Temperature"} :
                            /\ key \in DOMAIN report
                            /\ ~report[key].KeyError
                            /\ report[key].n = Len0(cells_data)
                            /\ report[key].n > 0
                      /\ report["LFP_Cells"] + report["NMC_Cells"] = Len0(cells_data)

\* The combined export is drawn with a task stored and no cell left.
EmptyRegistryAggregatesWitness ==
    /\ ReportShown(page, cells_data, tasks_data)
    /\ DOMAIN cells_data = {}
    /\ DOMAIN tasks_data # {}

\* The live fields of every cell kept by a step are left as they were.
LiveFieldsKept ==
    \A k \in Kept :
        /\ cells_data'[k].voltage = cells_data[k].voltage
        /\ cells_data'[k].temperature = cells_data[k].temperature
        /\ cells_data'[k].capacity = cells_data[k].capacity

\* C16 as stated: every step that leaves the controller Stopped, a manual
\* data refresh included, leaves every existing cell's voltage, temperature
\* and capacity unchanged.
StoppedStepsFreeze ==
    [][ ~simulation_running' => LiveFieldsKept ]_vars

\* C16: every step that leaves the controller Stopped and is not a click of
\* the sidebar's Refresh Data button perturbs no cell and leaves every
\* existing cell's voltage, temperature and capacity unchanged; a click of
\* Refresh Data perturbs every cell exactly once, Running or Stopped.
StoppedStepsFreezeButRefresh ==
    [][ /\ (~simulation_running' /\ event' # "refresh") =>
              /\ LiveFieldsKept
              /\ \A k \in DOMAIN perturbed' : perturbed'[k] = 0
        /\ event' = "refresh" =>
              /\ DOMAIN cells_data' = DOMAIN cells_data
              /\ \A k \in DOMAIN cells_data' : perturbed'[k] = 1
      ]_vars

\* Refresh Data was clicked with the controller Stopped, on the Real-time
\* Analysis page with auto refresh checked: the cell was perturbed, and its
\* voltage is one no creation gives.
StoppedRefreshWitness ==
    /\ event = "refresh"
    /\ ~simulation_running
    /\ page = "Real-time Analysis"
    /\ auto_refresh
    /\ \E k \in DOMAIN cells_data :
          perturbed[k] = 1 /\ cells_data[k].voltage = 3250

\* C17: for fixed per-cell deltas, running the loop of a tick over the cells
\* in any order gives the same registry, in which every cell's voltage,
\* temperature and capacity are those computed from that cell's own state
\* before the tick and its own two deltas.
TickOrderInvariant ==
    LET orders == Orders(DOMAIN cells_data)
    IN  \A draws \in OrderDraws(cells_data) :
            LET own == [k \in DOMAIN cells_data |->
                          simulate_cell(cells_data[k], draws[k][1], draws[k][2])]
            IN  /\ simulate_real_time_data(cells_data, draws) = own
                /\ \A order \in orders :
                      SimulateInOrder(cells_data, order, draws) = own

\* A tick has run over an LFP cell and an NMC cell, whose states differ.
TickOrderWitness ==
    /\ event = "refresh"
    /\ \E a, b \in DOMAIN cells_data :
          /\ cells_data[a].cell_type = "LFP"
          /\ cells_data[b].cell_type = "NMC"
          /\ perturbed[a] = 1
          /\ perturbed[b] = 1
    /\ Cardinality(Orders(DOMAIN cells_data)) >= 2

\* One key of registry d is gone in d2, and every other record is as it was.
RemovedOne(d, d2) ==
    /\ \E k \in DOMAIN d : DOMAIN d2 = DOMAIN d \ {k}
    /\ \A x \in DOMAIN d2 : d2[x] = d[x]
    /\ Len0(d2) = Len0(d) - 1

\* C19: the removal of a cell deletes one key that was in the cell registry
\* and nothing else: every other cell's record, the task registry and the
\* running flag are unchanged and the registry is smaller by exactly one;
\* the removal of a task does the same to the task registry; no removal
\* happens for a key that is not in its registry.
RemovalIsExact ==
    [][ /\ event' = "remove_cell" =>
              /\ RemovedOne(cells_data, cells_data')
              /\ tasks_data' = tasks_data
              /\ simulation_running' = simulation_running
        /\ event' = "remove_task" =>
              /\ RemovedOne(tasks_data, tasks_data')
              /\ cells_data' = cells_data
              /\ simulation_running' = simulation_running
      ]_vars

\* A cell was removed while the simulation was running, with another cell and
\* a task stored: both are still there.
RemovalIsExactWitness ==
    /\ event = "remove_cell"
    /\ msg = "cell_removed"
    /\ simulation_running
    /\ Len0(cells_data) = 1
    /\ Len0(tasks_data) = 1

\* The registries hold tasks and no cell.
TasksWithoutCells(cells, tasks) == DOMAIN cells = {} /\ DOMAIN tasks # {}

\* C20: a task is created only while the cell registry is non-empty: with
\* zero cells no submission of the task form happens and the task registry
\* gains no key; the tasks are kept when the last cell is removed, and a
\* state with tasks and no cell is entered only by the removal of a cell.
TasksNeedCells ==
    [][ /\ DOMAIN cells_data = {} =>
              /\ event' # "add_task"
              /\ DOMAIN tasks_data' \subseteq DOMAIN tasks_data
        /\ (TasksWithoutCells(cells_data', tasks_data')
              /\ ~TasksWithoutCells(cells_data, tasks_data)) =>
              /\ event' = "remove_cell"
              /\ tasks_data' = tasks_data
      ]_vars

\* The Add Tasks page is selected with a task stored and no cell left.
TasksNeedCellsWitness ==
    /\ TasksWithoutCells(cells_data, tasks_data)
    /\ page = "Add Tasks"
    /\ event = "select_page"

\* C21: start and stop take effect only while a cell exists: a step taken
\* with an empty cell registry is no click of Start or Stop, leaves the
\* running flag as it was and perturbs no cell; the removal of a cell leaves
\* the flag alone, and a Running controller becomes Stopped only by a click
\* of Stop with a cell stored.
ControllerNeedsCells ==
    [][ /\ DOMAIN cells_data = {} =>
              /\ event' \notin {"start", "stop"}
              /\ simulation_running' = simulation_running
              /\ \A k \in DOMAIN perturbed' : perturbed'[k] = 0
        /\ event' = "remove_cell" => simulation_running' = simulation_running
        /\ (simulation_running /\ ~simulation_running') =>
              /\ event' = "stop"
              /\ DOMAIN cells_data # {}
      ]_vars

\* The controller was left Running when the last cell was removed, and the
\* Real-time Analysis page is selected with the registry empty.
ControllerNeedsCellsWitness ==
    /\ simulation_running
    /\ DOMAIN cells_data = {}
    /\ page = "Real-time Analysis"
    /\ event = "select_page"

====
